---- MODULE Spec2Model ----
(***************************************************************************)
(* Granola sync: the token lifecycle manager (token_manager.py) and the    *)
(* sync orchestrator and converters (main.py) as a state machine.          *)
(*                                                                         *)
(* Python values are encoded per field so that values of one field are     *)
(* comparable:                                                             *)
(*   string-valued fields : a string, None is the string "None"            *)
(*   datetime fields      : <<t>> (seconds on the wall clock), None = <<>> *)
(*   stored ISO strings   : <<"iso", t>>, an unparseable string            *)
(*                          <<"garbage">>, null or missing = <<>>          *)
(*   expires_in           : <<"num", n>>, a non-number <<"nan">>,          *)
(*                          missing key = <<>>                             *)
(*   Markdown and text    : strings; a converter's result is Str(s),       *)
(*                          NonString or Raised                            *)
(***************************************************************************)
EXTENDS Integers, Sequences, FiniteSets, TLC

VARIABLES store, mem, now, last, pc, run, conv

vars == <<store, mem, now, last, pc, run, conv>>

-----------------------------------------------------------------------------
(* Bounds of the model and constants of the program *)

MaxTicks == 1

MaxDocs == 2

MaxNodes == 3

MaxUtterances == 2

BufferMinutes == 5

DefaultExpiresIn == 3600

BufferSeconds == BufferMinutes * 60

StartTime == 10 * 60

TickSteps == {300}

MaxClock == StartTime + MaxTicks * 300

-----------------------------------------------------------------------------
(* Python values *)

None == "None"

Truthy(v) == v # None /\ v # ""

NoTime == <<>>

IsoFormat(t) == <<"iso", t>>

IsIsoString(s) == Len(s) = 2 /\ s[1] = "iso"

FromIsoFormat(s) == <<s[2]>>

-----------------------------------------------------------------------------
(* The credential store, config.json *)

NoFields == [refresh_token |-> None, client_id |-> None, access_token |-> None, token_expiry |-> <<>>]

FileOf(kind, fields) == [kind |-> kind, refresh_token |-> fields.refresh_token, client_id |-> fields.client_id, access_token |-> fields.access_token, token_expiry |-> fields.token_expiry]

AbsentFile == FileOf("absent", NoFields)

MalformedFile == FileOf("malformed", NoFields)

NonRecordFile == FileOf("nonrecord", NoFields)

StoredExpiries == {<<>>, <<"garbage">>, IsoFormat(StartTime + 240), IsoFormat(StartTime + 300), IsoFormat(StartTime + 600)}

StoredCredentials == {<<None, None>>, <<None, "cid">>, <<"", "cid">>, <<"r0", None>>, <<"r0", "">>, <<"r0", "cid">>}

StoredTokens == ({"a0"} \X StoredExpiries) \cup {<<None, <<>>>>, <<"", IsoFormat(StartTime + 600)>>}

RecordFiles == {FileOf("record", [refresh_token |-> c[1], client_id |-> c[2], access_token |-> a[1], token_expiry |-> a[2]]) : c \in StoredCredentials, a \in StoredTokens}

InitialStores == {AbsentFile, MalformedFile, NonRecordFile} \cup RecordFiles

-----------------------------------------------------------------------------
(* The token endpoint's answers and the outcomes of writing the store *)

NoResp == [kind |-> "none", access_token |-> None, refresh_token |-> None, expires_in |-> <<>>]

ErrorResponses == {[NoResp EXCEPT !.kind = k] : k \in {"neterr", "httperr", "nonjson", "nondict"}}

ExpiresInValues == {<<>>, <<"nan">>, <<"num", 300>>}

DictResponses == {[kind |-> "dict", access_token |-> a, refresh_token |-> r, expires_in |-> e] : a \in {None, "a1"}, r \in {None, "", "r1"}, e \in ExpiresInValues}

Responses == ErrorResponses \cup DictResponses

WriteOutcomes == {"ok", "denied"}

-----------------------------------------------------------------------------
(* TokenManager *)

EmptyMem == [refresh_token |-> None, client_id |-> None, access_token |-> None, token_expiry |-> NoTime]

\* LoadConfig with the expiry parsed before any field is assigned.
LoadConfigParseFirst(st) ==
    IF st.kind # "record" THEN [mem |-> EmptyMem, ret |-> FALSE]
    ELSE IF st.token_expiry # <<>> /\ ~IsIsoString(st.token_expiry) THEN [mem |-> EmptyMem, ret |-> FALSE]
    ELSE [mem |-> [refresh_token |-> st.refresh_token, client_id |-> st.client_id, access_token |-> st.access_token, token_expiry |-> IF st.token_expiry = <<>> THEN NoTime ELSE FromIsoFormat(st.token_expiry)], ret |-> TRUE]

\* __init__ sets the four fields to None, then _load_config fills them in.
\* json.load raising (malformed), .get raising (not a record) and
\* fromisoformat raising are caught by the one except clause, after which
\* the fields assigned so far keep their values.
LoadConfig(st) ==
    IF st.kind = "absent" THEN [mem |-> EmptyMem, ret |-> FALSE]
    ELSE IF st.kind = "malformed" THEN [mem |-> EmptyMem, ret |-> FALSE]
    ELSE IF st.kind = "nonrecord" THEN [mem |-> EmptyMem, ret |-> FALSE]
    ELSE LET m1 == [EmptyMem EXCEPT !.refresh_token = st.refresh_token, !.client_id = st.client_id, !.access_token = st.access_token]
         IN  IF st.token_expiry = <<>> THEN [mem |-> m1, ret |-> TRUE]
             ELSE IF IsIsoString(st.token_expiry) THEN [mem |-> [m1 EXCEPT !.token_expiry = FromIsoFormat(st.token_expiry)], ret |-> TRUE]
             ELSE [mem |-> m1, ret |-> FALSE]

\* _save_config: read the file if it exists, overwrite the four keys, write.
\* Every exception is caught and logged; w is the outcome of the write:
\* "ok" or "denied" (reading or opening the file fails, the file is untouched).
SaveConfig(m, st, w) ==
    IF st.kind = "malformed" THEN st
    ELSE IF st.kind = "nonrecord" THEN st
    ELSE LET base == IF st.kind = "absent" THEN NoFields ELSE st
             data == [refresh_token |-> m.refresh_token, client_id |-> IF Truthy(m.client_id) THEN m.client_id ELSE base.client_id, access_token |-> m.access_token, token_expiry |-> IF m.token_expiry # NoTime THEN IsoFormat(m.token_expiry[1]) ELSE <<>>]
         IN  IF w = "ok" THEN FileOf("record", data) ELSE st

\* IsTokenExpired with a strict comparison.
IsTokenExpiredStrict(m, t) ==
    IF ~Truthy(m.access_token) \/ m.token_expiry = NoTime THEN TRUE
    ELSE t > m.token_expiry[1] - BufferSeconds

IsTokenExpired(m, t) ==
    IF ~Truthy(m.access_token) \/ m.token_expiry = NoTime THEN TRUE
    ELSE t >= m.token_expiry[1] - BufferSeconds

TokenRequest(m) == [client_id |-> m.client_id, grant_type |-> "refresh_token", refresh_token |-> m.refresh_token]

RefreshResult(m, st, ret, exc, reqs, resp, w) == [mem |-> m, store |-> st, ret |-> ret, exc |-> exc, reqs |-> reqs, resp |-> resp, write |-> w]

\* RefreshExchange with the refresh_token of the response assigned unchecked.
RefreshExchangeAssignsUnchecked(m, st, t, resp, w, sent) ==
    IF resp.kind \in {"neterr", "httperr", "nonjson"} THEN RefreshResult(m, st, FALSE, FALSE, sent, resp, "none")
    ELSE IF resp.kind = "nondict" THEN RefreshResult(m, st, FALSE, TRUE, sent, resp, "none")
    ELSE LET m2 == [m EXCEPT !.access_token = resp.access_token, !.refresh_token = resp.refresh_token]
         IN  IF resp.expires_in = <<"nan">> THEN RefreshResult(m2, st, FALSE, TRUE, sent, resp, "none")
             ELSE LET expires_in == IF resp.expires_in = <<>> THEN DefaultExpiresIn ELSE resp.expires_in[2]
                      m3 == [m2 EXCEPT !.token_expiry = <<t + expires_in>>]
                  IN  RefreshResult(m3, SaveConfig(m3, st, w), TRUE, FALSE, sent, resp, w)

\* The try block of refresh_access_token, after the request was sent.
RefreshExchange(m, st, t, resp, w, sent) ==
    IF resp.kind \in {"neterr", "httperr", "nonjson"} THEN RefreshResult(m, st, FALSE, FALSE, sent, resp, "none")
    ELSE IF resp.kind = "nondict" THEN RefreshResult(m, st, FALSE, TRUE, sent, resp, "none")
    ELSE LET m1 == [m EXCEPT !.access_token = resp.access_token]
             m2 == IF Truthy(resp.refresh_token) THEN [m1 EXCEPT !.refresh_token = resp.refresh_token] ELSE m1
         IN  IF resp.expires_in = <<"nan">> THEN RefreshResult(m2, st, FALSE, TRUE, sent, resp, "none")
             ELSE LET expires_in == IF resp.expires_in = <<>> THEN DefaultExpiresIn ELSE resp.expires_in[2]
                      m3 == [m2 EXCEPT !.token_expiry = <<t + expires_in>>]
                  IN  RefreshResult(m3, SaveConfig(m3, st, w), TRUE, FALSE, sent, resp, w)

\* RefreshAccessToken without the client_id check.
RefreshAccessTokenNoClientCheck(m, st, t, resp, w) ==
    IF ~Truthy(m.refresh_token) THEN RefreshResult(m, st, FALSE, FALSE, <<>>, NoResp, "none")
    ELSE RefreshExchange(m, st, t, resp, w, <<TokenRequest(m)>>)

\* RefreshAccessToken with the HTTP error left uncaught.
RefreshAccessTokenUncaught(m, st, t, resp, w) ==
    IF ~Truthy(m.refresh_token) \/ ~Truthy(m.client_id) THEN RefreshResult(m, st, FALSE, FALSE, <<>>, NoResp, "none")
    ELSE IF resp.kind = "httperr" THEN RefreshResult(m, st, FALSE, TRUE, <<TokenRequest(m)>>, resp, "none")
    ELSE RefreshExchange(m, st, t, resp, w, <<TokenRequest(m)>>)

\* refresh_access_token at time t, the endpoint answering resp, the store
\* write ending w. A response that is not JSON raises a RequestException
\* (requests.exceptions.JSONDecodeError), which is caught; a JSON value that is
\* not a record raises AttributeError at result.get, an expires_in that is not
\* a number raises TypeError in timedelta: neither is caught.
RefreshAccessToken(m, st, t, resp, w) ==
    IF ~Truthy(m.refresh_token) THEN RefreshResult(m, st, FALSE, FALSE, <<>>, NoResp, "none")
    ELSE IF ~Truthy(m.client_id) THEN RefreshResult(m, st, FALSE, FALSE, <<>>, NoResp, "none")
    ELSE RefreshExchange(m, st, t, resp, w, <<TokenRequest(m)>>)

GetValidResult(r, token, refreshes) == [mem |-> r.mem, store |-> r.store, token |-> token, ok |-> r.ret, exc |-> r.exc, reqs |-> r.reqs, resp |-> r.resp, write |-> r.write, refreshes |-> refreshes]

\* GetValidToken trying the refresh a second time when the first fails.
GetValidTokenRetries(m, st, t, resp, w) ==
    IF IsTokenExpired(m, t)
    THEN LET r1 == RefreshAccessToken(m, st, t, resp, w)
             r2 == RefreshAccessToken(r1.mem, r1.store, t, resp, w)
         IN  IF r1.exc \/ r1.ret THEN GetValidResult(r1, IF r1.exc THEN None ELSE r1.mem.access_token, 1)
             ELSE GetValidResult([r2 EXCEPT !.reqs = r1.reqs \o r2.reqs], IF r2.exc \/ ~r2.ret THEN None ELSE r2.mem.access_token, 2)
    ELSE GetValidResult(RefreshResult(m, st, FALSE, FALSE, <<>>, NoResp, "none"), m.access_token, 0)

\* GetValidToken returning the cached token when the refresh fails.
GetValidTokenKeepsStale(m, st, t, resp, w) ==
    IF IsTokenExpired(m, t)
    THEN LET r == RefreshAccessToken(m, st, t, resp, w)
         IN  GetValidResult(r, IF r.exc THEN None ELSE r.mem.access_token, 1)
    ELSE GetValidResult(RefreshResult(m, st, FALSE, FALSE, <<>>, NoResp, "none"), m.access_token, 0)

\* get_valid_token: token is the returned value (None on failure),
\* refreshes the number of refresh_access_token calls it made.
GetValidToken(m, st, t, resp, w) ==
    IF IsTokenExpired(m, t)
    THEN LET r == RefreshAccessToken(m, st, t, resp, w)
         IN  GetValidResult(r, IF r.exc \/ ~r.ret THEN None ELSE r.mem.access_token, 1)
    ELSE GetValidResult(RefreshResult(m, st, FALSE, FALSE, <<>>, NoResp, "none"), m.access_token, 0)

-----------------------------------------------------------------------------
(* The converters of main.py: values *)

\* The result of a call: a string, a value that is not a string, or an
\* exception.
Str(s) == [kind |-> "str", s |-> s]

NonString == [kind |-> "nonstr", s |-> ""]

Raised == [kind |-> "raise", s |-> ""]

\* A ProseMirror node as the JSON decoder hands it over. shape "nonrecord" is
\* a JSON value that is not an object. type and text are strings, "" when the
\* key is missing and None when it is null. attrs is <<>> (no attrs, or attrs
\* without level), <<"null">> (attrs is null), <<"level", n>> or
\* <<"badlevel">> (a level that is not an integer). content is the list of
\* the children, missing, or null.
ContentList(items) == [kind |-> "list", items |-> items]

NoContent == [kind |-> "missing", items |-> <<>>]

NullContent == [kind |-> "null", items |-> <<>>]

NodeOf(type, attrs, content, text) == [shape |-> "record", type |-> type, attrs |-> attrs, content |-> content, text |-> text]

NonRecord == [shape |-> "nonrecord", type |-> "", attrs |-> <<>>, content |-> NoContent, text |-> ""]

Text(s) == NodeOf("text", <<>>, NoContent, s)

Heading(level, items) == NodeOf("heading", <<"level", level>>, ContentList(items), "")

Element(type, items) == NodeOf(type, <<>>, ContentList(items), "")

-----------------------------------------------------------------------------
(* What the last operation did: its name, its boolean result (ok), the token *)
(* it returned, whether it raised, the token-endpoint requests it sent, the  *)
(* response it consumed, the store write it attempted, the refresh calls.    *)

Last(op, ok, token, exc, reqs, resp, w, refreshes) == [op |-> op, ok |-> ok, token |-> token, exc |-> exc, reqs |-> reqs, resp |-> resp, write |-> w, refreshes |-> refreshes]

\* The state of a run of main: nothing yet.
NoMetadata == [written |-> FALSE, sources |-> {}, meeting_date |-> None]

NoTranscript == [kind |-> "none", utts |-> <<>>]

NoDoc == [outcome |-> "none", error |-> "none", files |-> {}, metadata |-> NoMetadata, reqs |-> <<>>, transcript |-> NoTranscript]

NoRun == [token |-> None, docs |-> <<>>, idx |-> 0, attempted |-> <<>>, synced |-> 0, tokenReqs |-> 0, apiReqs |-> <<>>, cur |-> NoDoc, why |-> "none"]

\* The state of the converters: nothing called yet.
NoConv == [fn |-> "none", node |-> NonRecord, data |-> NoTranscript, done |-> FALSE, result |-> Str("")]

\* The environment of one refresh: the endpoint answers only a request that
\* is sent, and the store is written only after a usable answer.
Saves(resp) == resp.kind = "dict" /\ resp.expires_in # <<"nan">>

RefreshInputs(m) ==
    IF Truthy(m.refresh_token) /\ Truthy(m.client_id)
    THEN {<<resp, "none">> : resp \in {r \in Responses : ~Saves(r)}} \cup ({r \in Responses : Saves(r)} \X WriteOutcomes)
    ELSE {<<NoResp, "none">>}

Init ==
    /\ store \in InitialStores
    /\ now = StartTime
    /\ mem = LoadConfig(store).mem
    /\ last = Last("load", LoadConfig(store).ret, None, FALSE, <<>>, NoResp, "none", 0)
    /\ pc = "idle"
    /\ run = NoRun
    /\ conv = NoConv

\* TokenManager(): a new manager over the current store (the next run).
Construct ==
    /\ mem' = LoadConfig(store).mem
    /\ last' = Last("load", LoadConfig(store).ret, None, FALSE, <<>>, NoResp, "none", 0)
    /\ UNCHANGED <<conv, store, now, pc, run>>

IsExpired ==
    /\ last' = Last("is_expired", IsTokenExpired(mem, now), None, FALSE, <<>>, NoResp, "none", 0)
    /\ UNCHANGED <<conv, store, mem, now, pc, run>>

Refresh ==
    \E in \in RefreshInputs(mem) :
        LET r == RefreshAccessToken(mem, store, now, in[1], in[2])
        IN  /\ mem' = r.mem
            /\ store' = r.store
            /\ last' = Last("refresh", r.ret, None, r.exc, r.reqs, r.resp, r.write, 1)
            /\ UNCHANGED <<conv, now, pc, run>>

GetValid ==
    \E in \in (IF IsTokenExpired(mem, now) THEN RefreshInputs(mem) ELSE {<<NoResp, "none">>}) :
        LET r == GetValidToken(mem, store, now, in[1], in[2])
        IN  /\ mem' = r.mem
            /\ store' = r.store
            /\ last' = Last("get_valid_token", r.ok, r.token, r.exc, r.reqs, r.resp, r.write, r.refreshes)
            /\ UNCHANGED <<conv, now, pc, run>>

\* The wall clock advances between calls.
Tick ==
    \E d \in TickSteps :
        /\ pc = "idle"
        /\ now + d <= MaxClock
        /\ now' = now + d
        /\ last' = Last("tick", FALSE, None, FALSE, <<>>, NoResp, "none", 0)
        /\ UNCHANGED <<conv, store, mem, pc, run>>

Next == Construct \/ IsExpired \/ Refresh \/ GetValid \/ Tick

Spec == Init /\ [][Next]_vars

-----------------------------------------------------------------------------
(* The sync orchestrator, main.py *)

\* A document of the documents endpoint's list: shape "record" or "nonrecord"
\* (a JSON value without .get), id a string, None (null) or "missing", panel
\* the last_viewed_panel content: "none", "doc", or "raises" (a doc whose
\* conversion raises).
Doc(shape, id, panel) == [shape |-> shape, id |-> id, panel |-> panel]

DocValues == {Doc("record", "d1", "doc"), Doc("record", "missing", "none"), Doc("record", "d2", "raises"), Doc("record", None, "doc"), Doc("nonrecord", None, "none")}

DocLists == UNION {[1..n -> DocValues] : n \in 0..MaxDocs}

\* An utterance of a transcript: source and start_timestamp None when missing.
Utterance(shape, source, ts) == [shape |-> shape, source |-> source, start_timestamp |-> ts]

\* The transcript endpoint's answer: "404", "error" (any other failure),
\* "list" (a JSON list, utts its utterances) or "dict" (another JSON value).
Transcript(kind, utts) == [kind |-> kind, utts |-> utts]

TranscriptValues == {Transcript("404", <<>>), Transcript("error", <<>>), Transcript("list", <<>>), Transcript("dict", <<>>), Transcript("list", <<Utterance("record", "microphone", "t1"), Utterance("record", "system", None), Utterance("record", "microphone", "t2")>>), Transcript("list", <<Utterance("record", None, None), Utterance("record", "microphone", "t2")>>), Transcript("list", <<Utterance("nonrecord", None, None)>>)}

FailPoints == {"none", "mkdir", "document.json", "transcript.json", "metadata.json", "resume.md", "transcript.md"}

DocId(doc) == IF doc.id = "missing" THEN "unknown_id" ELSE doc.id

\* The transcript data with the body of a 404 answer handed to main as data.
TranscriptTruthyNotFoundBody(tr) == tr.kind \in {"dict", "404"} \/ (tr.kind = "list" /\ tr.utts # <<>>)

\* fetch_document_transcript returns the JSON value, or None on any failure.
TranscriptTruthy(tr) == tr.kind = "dict" \/ (tr.kind = "list" /\ tr.utts # <<>>)

\* The source of an utterance read without the default.
UtteranceSourceNoDefault(u) == u.source

UtteranceSource(u) == IF u.source = None THEN "unknown" ELSE u.source

\* What one pass of the loop body did: outcome "ok" (counted as synced), "caught"
\* (the except clause logged error) or "crash" (error left main); error names
\* the statement that raised.
DocResult(outcome, error, files, metadata, reqs) == [outcome |-> outcome, error |-> error, files |-> files, metadata |-> metadata, reqs |-> reqs, transcript |-> NoTranscript]

\* The part of the loop body inside the try block, after document.json.
ProcessDocFiles(doc, tr, fail, reqs) ==
    LET f1 == {"dir", "document.json"}
        listed == tr.kind = "list" /\ tr.utts # <<>>
        md == [written |-> TRUE, sources |-> IF listed THEN {UtteranceSource(tr.utts[i]) : i \in 1..Len(tr.utts)} ELSE {}, meeting_date |-> IF listed /\ Truthy(tr.utts[1].start_timestamp) THEN tr.utts[1].start_timestamp ELSE None]
    IN  IF TranscriptTruthy(tr) /\ fail = "transcript.json" THEN DocResult("caught", "transcript.json", f1, NoMetadata, reqs)
        ELSE LET f2 == IF TranscriptTruthy(tr) THEN f1 \cup {"transcript.json"} ELSE f1 IN
        IF listed /\ \E i \in 1..Len(tr.utts) : tr.utts[i].shape = "nonrecord" THEN DocResult("caught", "metadata", f2, NoMetadata, reqs)
        ELSE IF fail = "metadata.json" THEN DocResult("caught", "metadata.json", f2, NoMetadata, reqs)
        ELSE LET f3 == f2 \cup {"metadata.json"} IN
        IF doc.panel = "raises" THEN DocResult("caught", "convert", f3, md, reqs)
        ELSE IF doc.panel = "doc" /\ fail = "resume.md" THEN DocResult("caught", "resume.md", f3, md, reqs)
        ELSE LET f4 == IF doc.panel = "doc" THEN f3 \cup {"resume.md"} ELSE f3 IN
        IF TranscriptTruthy(tr) /\ fail = "transcript.md" THEN DocResult("caught", "transcript.md", f4, md, reqs)
        ELSE DocResult("ok", "none", IF TranscriptTruthy(tr) THEN f4 \cup {"transcript.md"} ELSE f4, md, reqs)

\* One pass of the loop body for doc: the transcript endpoint answers tr, and
\* fail is the file operation that raises (none of them for "none").
\* doc.get, the path join and mkdir stand before the try block.
ProcessDoc(doc, token, tr, fail) ==
    IF doc.shape = "nonrecord" THEN DocResult("crash", "doc.get", {}, NoMetadata, <<>>)
    ELSE IF doc.id = None THEN DocResult("crash", "path", {}, NoMetadata, <<>>)
    ELSE IF fail = "mkdir" THEN DocResult("crash", "mkdir", {}, NoMetadata, <<>>)
    ELSE IF fail = "document.json" THEN DocResult("caught", "document.json", {"dir"}, NoMetadata, <<>>)
    ELSE [ProcessDocFiles(doc, tr, fail, <<[endpoint |-> "transcript", bearer |-> token, document_id |-> DocId(doc)]>>) EXCEPT !.transcript = tr]

\* What one pass of the loop body can do to doc, over every answer of the
\* transcript endpoint and every failing file operation.
DocOutcomes(doc, token) == {ProcessDoc(doc, token, tr, fail) : tr \in TranscriptValues, fail \in FailPoints}

SyncStores == {AbsentFile, MalformedFile, FileOf("record", [refresh_token |-> "r0", client_id |-> None, access_token |-> None, token_expiry |-> <<>>]), FileOf("record", [refresh_token |-> "r0", client_id |-> "cid", access_token |-> "a0", token_expiry |-> IsoFormat(StartTime + 600)]), FileOf("record", [refresh_token |-> "r0", client_id |-> "cid", access_token |-> "a0", token_expiry |-> IsoFormat(StartTime + 240)])}

InitSync ==
    /\ store \in SyncStores
    /\ now = StartTime
    /\ mem = EmptyMem
    /\ last = Last("none", FALSE, None, FALSE, <<>>, NoResp, "none", 0)
    /\ pc = "idle"
    /\ run = NoRun
    /\ conv = NoConv

Ended(why) == [NoRun EXCEPT !.why = why]

\* main with a failed get_valid_token() going on to the documents request.
AfterTokenIgnoresFailure(r) == IF r.exc THEN "crashed" ELSE "fetch"

\* Where main goes with the result r of get_valid_token(): an exception leaves
\* main, a falsy token returns, a token goes on to the documents request.
AfterToken(r) == IF r.exc THEN "crashed" ELSE IF ~Truthy(r.token) THEN "returned" ELSE "fetch"

\* main up to the access token: the output directory check, check_config_exists,
\* TokenManager() and get_valid_token().
MainAuth ==
    /\ pc = "idle"
    /\ \E outdir \in BOOLEAN :
        IF ~outdir THEN pc' = "returned" /\ run' = Ended("no_output_dir") /\ UNCHANGED <<conv, store, mem, now, last>>
        ELSE IF store.kind = "absent" THEN pc' = "returned" /\ run' = Ended("no_config") /\ UNCHANGED <<conv, store, mem, now, last>>
        ELSE LET m0 == LoadConfig(store).mem IN
             \E in \in (IF IsTokenExpired(m0, now) THEN RefreshInputs(m0) ELSE {<<NoResp, "none">>}) :
                LET r == GetValidToken(m0, store, now, in[1], in[2])
                IN  /\ mem' = r.mem
                    /\ store' = r.store
                    /\ last' = Last("get_valid_token", r.ok, r.token, r.exc, r.reqs, r.resp, r.write, r.refreshes)
                    /\ pc' = AfterToken(r)
                    /\ run' = [NoRun EXCEPT !.token = r.token, !.tokenReqs = Len(r.reqs), !.why = IF r.exc THEN "token_exception" ELSE IF ~Truthy(r.token) THEN "no_token" ELSE "none"]
                    /\ UNCHANGED <<conv, now>>

DocumentsAnswers == {"error", "empty", "nodocs", "docs"}

\* fetch_granola_documents and the checks of its answer.
MainFetch ==
    /\ pc = "fetch"
    /\ \E answer \in DocumentsAnswers, docs \in DocLists :
        /\ answer # "docs" => docs = <<>>
        /\ pc' = IF answer = "docs" /\ docs # <<>> THEN "docs" ELSE "returned"
        /\ run' = [run EXCEPT !.docs = docs, !.idx = 1, !.apiReqs = <<[endpoint |-> "documents", bearer |-> run.token, document_id |-> None]>>, !.why = IF answer = "docs" THEN (IF docs = <<>> THEN "no_documents" ELSE "none") ELSE answer]
    /\ last' = Last("none", FALSE, None, FALSE, <<>>, NoResp, "none", 0)
    /\ UNCHANGED <<conv, store, mem, now>>

\* One iteration of the loop over the documents.
MainDoc ==
    /\ pc = "docs"
    /\ run.idx <= Len(run.docs)
    /\ \E r \in DocOutcomes(run.docs[run.idx], run.token) :
            /\ pc' = IF r.outcome = "crash" THEN "crashed" ELSE "docs"
            /\ run' = [run EXCEPT !.idx = IF r.outcome = "crash" THEN @ ELSE @ + 1, !.attempted = Append(@, run.idx), !.synced = IF r.outcome = "ok" THEN @ + 1 ELSE @, !.apiReqs = r.reqs, !.cur = r, !.why = IF r.outcome = "crash" THEN "document_exception" ELSE "none"]
    /\ UNCHANGED <<conv, store, mem, now, last>>

\* The end of the loop: "Sync complete".
MainEnd ==
    /\ pc = "docs"
    /\ run.idx > Len(run.docs)
    /\ pc' = "done"
    /\ UNCHANGED <<conv, store, mem, now, last, run>>

\* One run of main per behaviour: a run that is over stays over.
NextSync == MainAuth \/ MainFetch \/ MainDoc \/ MainEnd \/ Tick

SpecSync == InitSync /\ [][NextSync]_vars

-----------------------------------------------------------------------------
(* convert_prosemirror_to_markdown *)

\* '#' * level: the empty string for level <= 0.
RECURSIVE Repeat(_, _)
Repeat(s, n) == IF n <= 0 THEN "" ELSE s \o Repeat(s, n - 1)

Whitespace == {" ", "\t", "\n", "\r"}

RECURSIVE LStrip(_)
LStrip(s) == IF Len(s) > 0 /\ SubSeq(s, 1, 1) \in Whitespace THEN LStrip(SubSeq(s, 2, Len(s))) ELSE s

RECURSIVE RStrip(_)
RStrip(s) == IF Len(s) > 0 /\ SubSeq(s, Len(s), Len(s)) \in Whitespace THEN RStrip(SubSeq(s, 1, Len(s) - 1)) ELSE s

\* str.strip()
Strip(s) == RStrip(LStrip(s))

\* '\n'.join(items)
RECURSIVE JoinLines(_)
JoinLines(items) ==
    IF items = <<>> THEN ""
    ELSE IF Len(items) = 1 THEN items[1]
    ELSE items[1] \o "\n" \o JoinLines(Tail(items))

RECURSIVE ProcessNode(_)
RECURSIVE JoinChildren(_)
RECURSIVE BulletItems(_)

\* ''.join(process_node(child) for child in content): iterating null raises,
\* a missing key is the empty list.
JoinContent(content) == IF content.kind = "null" THEN Raised ELSE JoinChildren(content.items)

\* JoinChildren with the children joined last to first.
JoinChildrenReversed(children) ==
    IF children = <<>> THEN Str("")
    ELSE LET first == ProcessNode(children[1])
             rest == JoinChildren(Tail(children))
         IN  IF first.kind # "str" \/ rest.kind # "str" THEN Raised
             ELSE Str(rest.s \o first.s)

\* ''.join over the children: a child that raises, or that is rendered to
\* something that is not a string, makes the join raise.
JoinChildren(children) ==
    IF children = <<>> THEN Str("")
    ELSE LET first == ProcessNode(children[1])
             rest == JoinChildren(Tail(children))
         IN  IF first.kind # "str" \/ rest.kind # "str" THEN Raised
             ELSE Str(first.s \o rest.s)

\* The loop of the bulletList branch: the "- " lines of the listItem children,
\* as [kind, items]; item.get raises on a child that is not a record.
BulletItems(children) ==
    IF children = <<>> THEN [kind |-> "str", items |-> <<>>]
    ELSE LET item == children[1]
             rest == BulletItems(Tail(children))
         IN  IF item.shape # "record" THEN [kind |-> "raise", items |-> <<>>]
             ELSE IF item.type # "listItem" THEN rest
             ELSE LET item_content == JoinContent(item.content)
                  IN  IF item_content.kind # "str" \/ rest.kind # "str" THEN [kind |-> "raise", items |-> <<>>]
                      ELSE [kind |-> "str", items |-> <<"- " \o Strip(item_content.s)>> \o rest.items]

\* process_node
ProcessNode(node) ==
    IF node.shape # "record" THEN Str("")
    ELSE IF node.type = "heading" THEN
        IF node.attrs = <<"null">> THEN Raised
        ELSE LET heading_text == JoinContent(node.content)
             IN  IF heading_text.kind # "str" THEN Raised
                 ELSE IF node.attrs = <<"badlevel">> THEN Raised
                 ELSE LET level == IF node.attrs = <<>> THEN 1 ELSE node.attrs[2]
                      IN  Str(Repeat("#", level) \o " " \o heading_text.s \o "\n\n")
    ELSE IF node.type = "paragraph" THEN
        LET para_text == JoinContent(node.content)
        IN  IF para_text.kind # "str" THEN Raised ELSE Str(para_text.s \o "\n\n")
    ELSE IF node.type = "bulletList" THEN
        IF node.content.kind = "null" THEN Raised
        ELSE LET items == BulletItems(node.content.items)
             IN  IF items.kind # "str" THEN Raised ELSE Str(JoinLines(items.items) \o "\n\n")
    ELSE IF node.type = "text" THEN
        IF node.text = None THEN NonString ELSE Str(node.text)
    ELSE JoinContent(node.content)

\* not content: None, and the falsy JSON values, among them the empty object.
FalsyNode(node) == node.shape = "record" /\ node.type = "" /\ node.attrs = <<>> /\ node.content.kind = "missing" /\ node.text = ""

ConvertProsemirrorToMarkdown(content) ==
    IF content.shape # "record" THEN Str("")
    ELSE IF FalsyNode(content) THEN Str("")
    ELSE IF content.content.kind = "missing" THEN Str("")
    ELSE ProcessNode(content)

\* The trees given to the converter: every tree of at most MaxNodes nodes
\* over the node types and two text leaves, the examples of the
\* documentation, and trees with a defect at the root or below it.
InnerTypes == {"heading", "paragraph", "bulletList", "listItem", "doc"}

TextLeaves == {Text("A"), Text("B")}

Labelled(type, items) == IF type = "heading" THEN Heading(2, items) ELSE Element(type, items)

RECURSIVE TreesOfSize(_)
RECURSIVE ForestsOfSize(_)

TreesOfSize(n) ==
    (IF n = 1 THEN TextLeaves ELSE {}) \cup {Labelled(type, items) : type \in InnerTypes, items \in ForestsOfSize(n - 1)}

\* The forests of n nodes whose first tree has at most k nodes.
RECURSIVE ForestsFirstUpTo(_, _)
ForestsFirstUpTo(n, k) ==
    IF k = 0 THEN {}
    ELSE ForestsFirstUpTo(n, k - 1) \cup {<<t>> \o f : t \in TreesOfSize(k), f \in ForestsOfSize(n - k)}

ForestsOfSize(n) == IF n = 0 THEN {<<>>} ELSE ForestsFirstUpTo(n, n)

RECURSIVE TreesUpTo(_)
TreesUpTo(n) == IF n = 0 THEN {} ELSE TreesUpTo(n - 1) \cup TreesOfSize(n)

GeneratedTrees == TreesUpTo(MaxNodes)

NamedTrees == {
    Heading(2, <<Text("Title")>>),
    Heading(3, <<Text("Title"), Text(" and more")>>),
    NodeOf("heading", <<>>, ContentList(<<Text("Title")>>), ""),
    NodeOf("heading", <<"level", 2>>, NoContent, ""),
    NodeOf("paragraph", <<>>, NoContent, ""),
    Element("doc", <<NodeOf("paragraph", <<>>, NoContent, ""), Element("paragraph", <<Text("A")>>)>>),
    Element("bulletList", <<Element("listItem", <<Text("A")>>), Element("listItem", <<Text("B")>>)>>),
    Element("bulletList", <<Element("listItem", <<Element("paragraph", <<Text(" A ")>>)>>), Element("paragraph", <<Text("B")>>), Element("listItem", <<Text("C"), Text("D")>>)>>),
    Element("doc", <<Heading(1, <<Text("Notes")>>), Element("paragraph", <<Text("A"), Text("B")>>), Element("bulletList", <<Element("listItem", <<Element("paragraph", <<Text("A")>>)>>)>>)>>),
    Element("blockquote", <<Element("paragraph", <<Text("A")>>)>>)}

Defects == {
    NonRecord,
    Heading(0, <<Text("Title")>>),
    NodeOf("", <<>>, NoContent, ""),
    NodeOf("", <<>>, ContentList(<<Text("A")>>), ""),
    NodeOf(None, <<>>, ContentList(<<Text("A")>>), ""),
    NodeOf("text", <<>>, NoContent, ""),
    NodeOf("text", <<>>, NoContent, None),
    NodeOf("text", <<>>, ContentList(<<>>), None),
    NodeOf("paragraph", <<>>, NullContent, ""),
    NodeOf("paragraph", <<>>, ContentList(<<NonRecord, Text("A")>>), ""),
    NodeOf("doc", <<>>, NullContent, ""),
    NodeOf("heading", <<"null">>, ContentList(<<Text("A")>>), ""),
    NodeOf("heading", <<"badlevel">>, ContentList(<<Text("A")>>), ""),
    NodeOf("heading", <<>>, NullContent, ""),
    NodeOf("bulletList", <<>>, NullContent, ""),
    NodeOf("bulletList", <<>>, ContentList(<<NonRecord>>), ""),
    NodeOf("bulletList", <<>>, ContentList(<<NodeOf("listItem", <<>>, NoContent, "")>>), ""),
    NodeOf("bulletList", <<>>, ContentList(<<NodeOf("listItem", <<>>, NullContent, "")>>), ""),
    NodeOf("bulletList", <<>>, ContentList(<<NodeOf("listItem", <<>>, ContentList(<<NonRecord>>), "")>>), "")}

MalformedTrees ==
    Defects
        \cup {Element("doc", <<d>>) : d \in Defects}
        \cup {Element("doc", <<Element("paragraph", <<Text("A")>>), Element("paragraph", <<d>>)>>) : d \in Defects}
        \cup {Element("bulletList", <<Element("listItem", <<d>>)>>) : d \in Defects}

DocumentInputs == GeneratedTrees \cup NamedTrees \cup MalformedTrees

-----------------------------------------------------------------------------
(* convert_transcript_to_markdown *)

\* An utterance given to the converter: source, text and start_timestamp are
\* strings, None when the key is missing.
UtteranceOf(source, text, ts) == [shape |-> "record", source |-> source, text |-> text, start_timestamp |-> ts]

NonRecordUtterance == [shape |-> "nonrecord", source |-> None, text |-> None, start_timestamp |-> None]

Placeholder == "# Transcript\n\nNo transcript content available.\n"

TitleLine == "# Transcript\n\n"

DigitValue == ("0" :> 0) @@ ("1" :> 1) @@ ("2" :> 2) @@ ("3" :> 3) @@ ("4" :> 4) @@ ("5" :> 5) @@ ("6" :> 6) @@ ("7" :> 7) @@ ("8" :> 8) @@ ("9" :> 9)

AllDigits(s) == \A i \in 1..Len(s) : SubSeq(s, i, i) \in DOMAIN DigitValue

RECURSIVE Number(_)
Number(s) == IF s = "" THEN 0 ELSE 10 * Number(SubSeq(s, 1, Len(s) - 1)) + DigitValue[SubSeq(s, Len(s), Len(s))]

\* start_timestamp.replace('Z', '+00:00')
RECURSIVE ReplaceZ(_)
ReplaceZ(s) ==
    IF s = "" THEN ""
    ELSE (IF SubSeq(s, 1, 1) = "Z" THEN "+00:00" ELSE SubSeq(s, 1, 1)) \o ReplaceZ(SubSeq(s, 2, Len(s)))

DaysIn(year, month) ==
    IF month \in {4, 6, 9, 11} THEN 30
    ELSE IF month # 2 THEN 31
    ELSE IF year % 4 = 0 /\ (year % 100 # 0 \/ year % 400 = 0) THEN 29 ELSE 28

\* YYYY-MM-DD
IsDate(s) ==
    /\ Len(s) = 10
    /\ SubSeq(s, 5, 5) = "-" /\ SubSeq(s, 8, 8) = "-"
    /\ AllDigits(SubSeq(s, 1, 4)) /\ AllDigits(SubSeq(s, 6, 7)) /\ AllDigits(SubSeq(s, 9, 10))
    /\ Number(SubSeq(s, 1, 4)) >= 1
    /\ Number(SubSeq(s, 6, 7)) \in 1..12
    /\ Number(SubSeq(s, 9, 10)) \in 1..DaysIn(Number(SubSeq(s, 1, 4)), Number(SubSeq(s, 6, 7)))

\* HH, HH:MM or HH:MM:SS
IsClock(s) ==
    /\ Len(s) \in {2, 5, 8}
    /\ AllDigits(SubSeq(s, 1, 2)) /\ Number(SubSeq(s, 1, 2)) < 24
    /\ Len(s) >= 5 => (SubSeq(s, 3, 3) = ":" /\ AllDigits(SubSeq(s, 4, 5)) /\ Number(SubSeq(s, 4, 5)) < 60)
    /\ Len(s) = 8 => (SubSeq(s, 6, 6) = ":" /\ AllDigits(SubSeq(s, 7, 8)) /\ Number(SubSeq(s, 7, 8)) < 60)

\* nothing, .fff or .ffffff
IsFraction(s) == s = "" \/ (Len(s) \in {4, 7} /\ SubSeq(s, 1, 1) = "." /\ AllDigits(SubSeq(s, 2, Len(s))))

\* nothing, +HH:MM or -HH:MM
IsOffset(s) == s = "" \/ (Len(s) = 6 /\ SubSeq(s, 1, 1) \in {"+", "-"} /\ IsClock(SubSeq(s, 2, 6)))

\* The ways to cut the part after the date and its separator into clock,
\* fraction and offset that datetime.fromisoformat accepts.
ClockCuts(t) == {c \in {2, 5, 8} \X {0, 4, 7} :
                    /\ c[1] + c[2] <= Len(t)
                    /\ c[2] > 0 => c[1] = 8
                    /\ IsClock(SubSeq(t, 1, c[1]))
                    /\ IsFraction(SubSeq(t, c[1] + 1, c[1] + c[2]))
                    /\ IsOffset(SubSeq(t, c[1] + c[2] + 1, Len(t)))}

\* Whether datetime.fromisoformat(s) returns.
ParsesIso(s) ==
    \/ IsDate(s)
    \/ Len(s) >= 13 /\ IsDate(SubSeq(s, 1, 10)) /\ ClockCuts(SubSeq(s, 12, Len(s))) # {}

\* dt.strftime('%H:%M:%S') of the datetime parsed from s.
ClockOf(s) ==
    IF Len(s) = 10 THEN "00:00:00"
    ELSE LET t == SubSeq(s, 12, Len(s))
             n == (CHOOSE c \in ClockCuts(t) : TRUE)[1]
         IN  SubSeq(t, 1, n) \o SubSeq(":00:00", n - 1, 6)

\* The speaker with every source but "system" taken for the microphone.
SpeakerMicrophoneUnlessSystem(source) == IF source = "system" THEN "System" ELSE "Microphone"

\* utterance.get('source', 'unknown'), then the binary label.
Speaker(source) == IF (IF source = None THEN "unknown" ELSE source) = "microphone" THEN "Microphone" ELSE "System"

\* The timestamp of a block; start_timestamp missing defaults to ''.
TimestampStr(ts) ==
    IF ts = None \/ ts = "" THEN ""
    ELSE IF ParsesIso(ReplaceZ(ts)) THEN "[" \o ClockOf(ReplaceZ(ts)) \o "]"
    ELSE ""

UtteranceBlock(u) == "**" \o Speaker(u.source) \o "** " \o TimestampStr(u.start_timestamp) \o "\n\n" \o (IF u.text = None THEN "" ELSE u.text) \o "\n\n"

RECURSIVE UtteranceBlocks(_)
UtteranceBlocks(utts) ==
    IF utts = <<>> THEN Str("")
    ELSE IF utts[1].shape # "record" THEN Raised
    ELSE LET rest == UtteranceBlocks(Tail(utts))
         IN  IF rest.kind # "str" THEN Raised ELSE Str(UtteranceBlock(utts[1]) \o rest.s)

\* transcript_data of kind "none" is None, of kind "dict" a JSON value that
\* is not a list.
ConvertTranscriptToMarkdown(data) ==
    IF data.kind # "list" \/ data.utts = <<>> THEN Str(Placeholder)
    ELSE LET blocks == UtteranceBlocks(data.utts)
         IN  IF blocks.kind # "str" THEN Raised ELSE Str(TitleLine \o blocks.s)

Timestamps == {None, "", "2024-01-01T10:00:00Z", "2024-01-01T10:00:05.250Z", "2024-01-01T12:30:45+02:00", "2024-01-01", "2024-01-01T25:00:00Z", "yesterday"}

Utterances == {UtteranceOf(s, "hi", ts) : s \in {"microphone", "system", None}, ts \in Timestamps} \cup {UtteranceOf("microphone", None, None), UtteranceOf("unknown", "yo", "2024-02-30T10:00:00Z"), UtteranceOf("Microphone", "yo", "2024-01-01T10:00Z"), NonRecordUtterance}

TranscriptInputs == {Transcript("none", <<>>), Transcript("dict", <<>>)} \cup {Transcript("list", utts) : utts \in UNION {[1..n -> Utterances] : n \in 0..MaxUtterances}}

-----------------------------------------------------------------------------
(* The converters as a state machine: an input is drawn, the converter is *)
(* applied to it.                                                          *)

InitConvert ==
    /\ store = AbsentFile
    /\ now = StartTime
    /\ mem = EmptyMem
    /\ last = Last("none", FALSE, None, FALSE, <<>>, NoResp, "none", 0)
    /\ pc = "idle"
    /\ run = NoRun
    /\ conv \in {[NoConv EXCEPT !.fn = "document", !.node = n] : n \in DocumentInputs} \cup {[NoConv EXCEPT !.fn = "transcript", !.data = d] : d \in TranscriptInputs}

ConvertDocument ==
    /\ conv.fn = "document" /\ ~conv.done
    /\ conv' = [conv EXCEPT !.done = TRUE, !.result = ConvertProsemirrorToMarkdown(conv.node)]
    /\ UNCHANGED <<store, mem, now, last, pc, run>>

ConvertTranscript ==
    /\ conv.fn = "transcript" /\ ~conv.done
    /\ conv' = [conv EXCEPT !.done = TRUE, !.result = ConvertTranscriptToMarkdown(conv.data)]
    /\ UNCHANGED <<store, mem, now, last, pc, run>>

NextConvert == ConvertDocument \/ ConvertTranscript

SpecConvert == InitConvert /\ [][NextConvert]_vars

-----------------------------------------------------------------------------
(* Claims about the token lifecycle manager *)

StoreUnusable == store.kind # "record" \/ store.token_expiry = <<"garbage">>

\* C1: after a refresh() that received a 2xx response carrying a new, non-empty
\* refresh_token and returned, the persisted store holds that new refresh_token,
\* so that the next load() reads it. (Stated as claimed; the code returns
\* success also when the store write failed.)
C1_RotationPersisted ==
    (last.op = "refresh" /\ ~last.exc /\ last.resp.kind = "dict" /\ Truthy(last.resp.refresh_token))
        => /\ store.kind = "record"
           /\ store.refresh_token = last.resp.refresh_token
           /\ LoadConfig(store).mem.refresh_token = last.resp.refresh_token

\* C2: whenever refresh() reports success, an access token is recorded and
\* is_expired() is false immediately afterwards. (Stated as claimed.)
C2_SuccessIsValid ==
    (last.op = "refresh" /\ last.ok /\ ~last.exc)
        => (Truthy(mem.access_token) /\ ~IsTokenExpired(mem, now))

\* C3: a refresh() that does not succeed leaves the in-memory credential
\* state and the persisted store exactly as they were. (Stated as claimed.)
C3_FailureChangesNothing ==
    [][(last'.op = "refresh" /\ ~last'.ok) => (mem' = mem /\ store' = store)]_vars

C5_NoRequestWithoutCredentials ==
    [][last'.op \in {"refresh", "get_valid_token"} =>
        /\ (last'.refreshes = 1 /\ (mem.refresh_token \in {None, ""} \/ mem.client_id \in {None, ""}))
            => (last'.reqs = <<>> /\ ~last'.ok /\ ~last'.exc /\ last'.token = None)
        /\ \A i \in 1..Len(last'.reqs) :
            /\ last'.reqs[i].client_id = mem.client_id
            /\ last'.reqs[i].client_id \notin {None, ""}
            /\ last'.reqs[i].grant_type = "refresh_token"
            /\ last'.reqs[i].refresh_token = mem.refresh_token
            /\ last'.reqs[i].refresh_token \notin {None, ""}]_vars

\* C5 witness: a refresh() with a refresh_token but no client_id failed
\* without a request.
C5_Witness ==
    last.op = "refresh" /\ mem.refresh_token = "r0" /\ mem.client_id = None /\ last.reqs = <<>> /\ ~last.ok

\* C6: get_valid_token() calls refresh() iff is_expired() is true at the call;
\* not expired: it returns the cached token, sends nothing and changes nothing;
\* expired: it returns the access token stored by the refresh it performed
\* (the token of the response when the refresh succeeded, none when it failed).
C6_GetValidTokenRefreshesIffExpired ==
    [][last'.op = "get_valid_token" =>
        /\ (last'.refreshes = 1) = IsTokenExpired(mem, now)
        /\ last'.refreshes \in {0, 1}
        /\ ~IsTokenExpired(mem, now) =>
            (last'.token = mem.access_token /\ last'.reqs = <<>> /\ ~last'.exc /\ mem' = mem /\ store' = store)
        /\ (IsTokenExpired(mem, now) /\ ~last'.exc) =>
            /\ last'.token = (IF last'.ok THEN last'.resp.access_token ELSE None)
            /\ last'.ok => last'.token = mem'.access_token]_vars

\* C6 witness: an expired manager refreshed and returned the new token while
\* the cached one was "a0".
C6_Witness ==
    last.op = "get_valid_token" /\ last.refreshes = 1 /\ last.ok /\ last.token = "a1" /\ mem.access_token = "a1"

\* C7: when the token is expired and the endpoint answers the refresh with a
\* non-2xx response, get_valid_token() returns the absent result and raises
\* nothing.
C7_AuthFailureIsAValue ==
    (last.op = "get_valid_token" /\ last.resp.kind = "httperr")
        => (~last.exc /\ last.token = None /\ last.refreshes = 1)

\* C7 witness: get_valid_token() over a cached, expired token got a non-2xx
\* answer.
C7_Witness ==
    last.op = "get_valid_token" /\ last.resp.kind = "httperr" /\ mem.access_token = "a0" /\ last.token = None

\* C9 as claimed: load() on a store that is missing, unparseable, not a record
\* or holding an unparseable token_expiry raises nothing and leaves
\* refresh_token absent.
C9_LoadLeavesNoRefreshToken ==
    (last.op = "load" /\ StoreUnusable) => (~last.exc /\ mem.refresh_token \in {None, ""})

\* C9 amended: load() never raises. On a store that is missing, unparseable or
\* not a record every field stays absent, the next is_expired() is true and the
\* next refresh()/get_valid_token() fail without a request or an exception. On a
\* record whose token_expiry is unparseable, refresh_token, client_id and
\* access_token are the record's and token_expiry is absent, so the next
\* is_expired() is true.
C9_LoadFailsSilently ==
    /\ [](last.op = "load" =>
            /\ ~last.exc
            /\ store.kind # "record" => (mem = EmptyMem /\ ~last.ok)
            /\ (store.kind = "record" /\ store.token_expiry = <<"garbage">>) =>
                /\ ~last.ok
                /\ mem.refresh_token = store.refresh_token
                /\ mem.client_id = store.client_id
                /\ mem.access_token = store.access_token
                /\ mem.token_expiry = NoTime)
    /\ [][(last.op = "load" /\ StoreUnusable) =>
            /\ last'.op = "is_expired" => last'.ok
            /\ (store.kind # "record" /\ last'.op \in {"refresh", "get_valid_token"}) =>
                (~last'.ok /\ ~last'.exc /\ last'.reqs = <<>> /\ last'.token = None /\ mem' = mem)]_vars

\* C9 witness: a record with an unparseable token_expiry was loaded with its
\* refresh_token.
C9_Witness ==
    last.op = "load" /\ store.kind = "record" /\ store.token_expiry = <<"garbage">> /\ mem.refresh_token = "r0" /\ mem.client_id = "cid"

-----------------------------------------------------------------------------
(* Claims about the orchestrator *)

\* C8: no automatic retry: a call of refresh() sends at most one request to
\* the token endpoint, a call of get_valid_token() makes at most one refresh()
\* attempt, and a whole sync run sends at most one token-endpoint request,
\* whatever the endpoint answers.
C8_SingleAttempt ==
    /\ Len(last.reqs) <= 1
    /\ last.refreshes <= 1
    /\ Len(last.reqs) <= last.refreshes
    /\ run.tokenReqs <= 1
    /\ pc = "fetch" => run.tokenReqs = Len(last.reqs)

\* C8 witness: a run whose one refresh was answered with a network error
\* returned after that single request.
C8_Witness ==
    pc = "returned" /\ run.why = "no_token" /\ last.resp.kind = "neterr" /\ Len(last.reqs) = 1 /\ run.tokenReqs = 1

\* C10: per-document isolation: once the loop over the documents is entered,
\* a run that is over has attempted every document of the list, in list
\* order: a failure while handling document i never prevents the handling of
\* a document j > i. (Stated as claimed; doc.get, the path join and mkdir
\* stand outside the try block, and an exception there ends the run.)
C10_EveryDocumentAttempted ==
    (run.docs # <<>> /\ pc \in {"done", "crashed", "returned"})
        => run.attempted = [i \in 1..Len(run.docs) |-> i]

\* C11: a failed get_valid_token() at startup is fatal for the run: the run
\* is over without a documents or transcript request and without any
\* per-document output; every documents/transcript request of a run carries as
\* bearer the (present) access token get_valid_token() returned at its start.
C11_TokenFailureIsFatal ==
    /\ [](/\ last.op = "get_valid_token" => run.token = last.token
          /\ (pc # "idle" /\ run.why \notin {"no_output_dir", "no_config"} /\ run.token \in {None, ""}) =>
                /\ pc \in {"returned", "crashed"}
                /\ run.apiReqs = <<>>
                /\ run.docs = <<>> /\ run.attempted = <<>> /\ run.synced = 0
                /\ run.cur = NoDoc
          /\ \A i \in 1..Len(run.apiReqs) :
                /\ run.apiReqs[i].endpoint \in {"documents", "transcript"}
                /\ run.apiReqs[i].bearer = run.token
                /\ run.apiReqs[i].bearer \notin {None, ""})
    /\ [][pc # "idle" => run'.token = run.token]_vars

\* C11 witness: the token endpoint rejected the refresh, get_valid_token()
\* returned nothing and the run returned without a request or an output.
C11_Witness ==
    pc = "returned" /\ last.op = "get_valid_token" /\ last.resp.kind = "httperr" /\ run.token = None /\ run.apiReqs = <<>> /\ run.cur = NoDoc

\* C12: a 404 from the transcript endpoint is a normal outcome: the document
\* is processed to completion -- document.json and metadata.json (sources
\* empty, meeting_date absent) are written, resume.md is rendered when the
\* document has content, neither transcript.json nor transcript.md is written
\* -- and it is counted as synced. The only things that stop such a document
\* are the ones that stop any document: a file write that fails or a summary
\* whose conversion raises.
C12_NotFoundIsNormal ==
    /\ [](run.cur.transcript.kind = "404" =>
            LET c == run.cur
                doc == run.docs[run.attempted[Len(run.attempted)]]
            IN  /\ c.outcome \in {"ok", "caught"}
                /\ c.error \in {"none", "metadata.json", "convert", "resume.md"}
                /\ (c.outcome = "ok") = (c.error = "none")
                /\ "document.json" \in c.files
                /\ "transcript.json" \notin c.files /\ "transcript.md" \notin c.files
                /\ ("metadata.json" \in c.files) = (c.error # "metadata.json")
                /\ c.metadata.written = ("metadata.json" \in c.files)
                /\ c.metadata.written => (c.metadata.sources = {} /\ c.metadata.meeting_date = None)
                /\ ("resume.md" \in c.files) = (doc.panel = "doc" /\ c.error = "none")
                /\ (c.error = "convert") = (doc.panel = "raises" /\ "metadata.json" \in c.files))
    /\ [][(run'.attempted # run.attempted /\ run'.cur.transcript.kind = "404") =>
            run'.synced = run.synced + (IF run'.cur.error = "none" THEN 1 ELSE 0)]_vars

\* C12 witness: a document with a summary whose transcript request returned
\* 404 was written whole and counted.
C12_Witness ==
    /\ run.cur.transcript.kind = "404" /\ run.cur.outcome = "ok"
    /\ run.cur.files = {"dir", "document.json", "metadata.json", "resume.md"}
    /\ run.cur.metadata = [written |-> TRUE, sources |-> {}, meeting_date |-> None]
    /\ run.synced = 1

\* C18: the metadata record written for a document has sources equal to the
\* set of the source values of the transcript's utterances, a missing source
\* counted as "unknown", and meeting_date equal to the start_timestamp of the
\* first utterance; with a transcript that is absent, empty or not a list,
\* sources is empty and meeting_date absent; with a first utterance without a
\* timestamp, meeting_date is absent whatever the later utterances hold.
C18_SyncRecordDerivation ==
    run.cur.metadata.written =>
        LET tr == run.cur.transcript
            md == run.cur.metadata
        IN  IF tr.kind = "list" /\ Len(tr.utts) > 0
            THEN /\ md.sources = {(IF tr.utts[i].source = None THEN "unknown" ELSE tr.utts[i].source) : i \in 1..Len(tr.utts)}
                 /\ md.meeting_date = tr.utts[1].start_timestamp
                 /\ tr.utts[1].start_timestamp = None => md.meeting_date = None
            ELSE md.sources = {} /\ md.meeting_date = None

\* C18 witness: a record written from a transcript whose first utterance has
\* neither source nor timestamp and whose second has both.
C18_Witness ==
    /\ run.cur.metadata = [written |-> TRUE, sources |-> {"unknown", "microphone"}, meeting_date |-> None]
    /\ Len(run.cur.transcript.utts) = 2 /\ run.cur.transcript.utts[2].start_timestamp = "t2"
    /\ "metadata.json" \in run.cur.files

-----------------------------------------------------------------------------
(* Claims about the credential state as a whole *)

\* C16: between operations the in-memory refresh_token, access_token and
\* token_expiry equal the values of the persisted store, that is the values
\* load() reads from it: memory and store never diverge. (Stated as claimed;
\* a refresh whose store write fails, or that raises after assigning the
\* tokens, leaves memory ahead of the store.)
C16_MemoryEqualsStore ==
    LET stored == LoadConfig(store).mem
    IN  /\ mem.refresh_token = stored.refresh_token
        /\ mem.access_token = stored.access_token
        /\ mem.token_expiry = stored.token_expiry

-----------------------------------------------------------------------------
(* Claims about the converters *)

\* C13: the document converter is total: for every tree given to it, also a
\* malformed or partially empty one (type, attrs, content or text missing or
\* null, children that are not records, a heading level that is not an
\* integer), it returns a string and raises nothing. (Stated as claimed.)
C13_DocumentConverterTotal ==
    (conv.fn = "document" /\ conv.done) => conv.result.kind = "str"

\* A well-formed Document Node tree: records with a type, text leaves without
\* children, a heading level that is a positive integer where given.
RECURSIVE WellFormed(_)
WellFormed(node) ==
    /\ node.shape = "record"
    /\ node.type \notin {"", None}
    /\ node.text # None
    /\ node.attrs = <<>> \/ (Len(node.attrs) = 2 /\ node.attrs[1] = "level" /\ node.attrs[2] >= 1)
    /\ node.content.kind \in {"missing", "list"}
    /\ node.type = "text" => node.content.kind = "missing"
    /\ \A i \in 1..Len(node.content.items) : WellFormed(node.content.items[i])

\* The structural dispatch as the claim words it.
RECURSIVE Dispatch(_)
RECURSIVE DispatchAll(_)
DispatchAll(nodes) == IF nodes = <<>> THEN "" ELSE Dispatch(nodes[1]) \o DispatchAll(Tail(nodes))

Dispatch(node) ==
    LET children == node.content.items
        listItems == SelectSeq(children, LAMBDA c : c.type = "listItem")
    IN  CASE node.type = "heading" -> Repeat("#", IF node.attrs = <<>> THEN 1 ELSE node.attrs[2]) \o " " \o DispatchAll(children) \o "\n\n"
          [] node.type = "paragraph" -> DispatchAll(children) \o "\n\n"
          [] node.type = "bulletList" -> JoinLines([i \in 1..Len(listItems) |-> "- " \o Strip(DispatchAll(listItems[i].content.items))]) \o "\n\n"
          [] node.type = "text" -> node.text
          [] OTHER -> DispatchAll(children)

\* C14 as claimed: for every well-formed tree, given as the node passed to
\* the converter, the output equals the structural dispatch.
C14_OutputIsDispatch ==
    (conv.fn = "document" /\ conv.done /\ WellFormed(conv.node))
        => conv.result = Str(Dispatch(conv.node))

\* C14 amended: for every well-formed tree whose root has a content field the
\* output equals the structural dispatch of the root; a root without a content
\* field (a bare text leaf, an empty paragraph or heading) gives the empty
\* string. Below the root every node is dispatched, with or without content.
C14_OutputIsDispatchUnderContent ==
    (conv.fn = "document" /\ conv.done /\ WellFormed(conv.node))
        => conv.result = Str(IF conv.node.content.kind = "missing" THEN "" ELSE Dispatch(conv.node))

\* C14 witness: the bullet list with the items "A" and "B" was rendered.
C14_Witness ==
    /\ conv.fn = "document" /\ conv.done
    /\ conv.node = Element("bulletList", <<Element("listItem", <<Text("A")>>), Element("listItem", <<Text("B")>>)>>)
    /\ conv.result = Str("- A\n- B\n\n")

\* The blocks of the utterances as the claim words them, in the input order.
RECURSIVE ClaimedBlocks(_)
ClaimedBlocks(utts) ==
    IF utts = <<>> THEN ""
    ELSE LET u == utts[1]
             label == IF u.source = "microphone" THEN "Microphone" ELSE "System"
             parseable == u.start_timestamp \notin {None, ""} /\ ParsesIso(ReplaceZ(u.start_timestamp))
             bracket == IF parseable THEN "[" \o ClockOf(ReplaceZ(u.start_timestamp)) \o "]" ELSE ""
         IN  "**" \o label \o "** " \o bracket \o "\n\n" \o (IF u.text = None THEN "" ELSE u.text) \o "\n\n" \o ClaimedBlocks(Tail(utts))

\* C15: the transcript converter returns the fixed placeholder when its input
\* is empty or not a list; otherwise the title line followed by one block per
\* utterance, in the input order: "Microphone" exactly for source
\* "microphone" and "System" for every other or missing source, the bracketed
\* HH:MM:SS exactly when start_timestamp is present and parses, then the text.
C15_TranscriptBlocks ==
    (conv.fn = "transcript" /\ conv.done) =>
        IF conv.data.kind # "list" \/ Len(conv.data.utts) = 0 THEN conv.result = Str("# Transcript\n\nNo transcript content available.\n")
        ELSE (\A i \in 1..Len(conv.data.utts) : conv.data.utts[i].shape = "record")
                => conv.result = Str("# Transcript\n\n" \o ClaimedBlocks(conv.data.utts))

\* C15 witness: two utterances, the microphone's with a timestamp and a
\* system one without, were rendered in their order.
C15_Witness ==
    /\ conv.fn = "transcript" /\ conv.done
    /\ conv.data.utts = <<UtteranceOf("microphone", "hi", "2024-01-01T10:00:00Z"), UtteranceOf("system", "hi", None)>>
    /\ conv.result = Str("# Transcript\n\n**Microphone** [10:00:00]\n\nhi\n\n**System** \n\nhi\n\n")

====
